---- MODULE Spec2Model ----
(***************************************************************************)
(* A model of oss/iterators.py: the pull loop of _BaseIterator.__next__    *)
(* and the five _fetch policies (BucketIterator, ObjectIterator,           *)
(* MultipartUploadIterator, ObjectUploadIterator, PartIterator).           *)
(*                                                                         *)
(* Strings (names, markers, upload ids) are sequences of characters, the   *)
(* characters being the naturals 1..MaxChar, and are compared the way      *)
(* Python compares str: character by character, a proper prefix first.     *)
(*                                                                         *)
(* One iterator instance is modelled.  A call of next() is the action      *)
(* Call followed by iterations of the `while True` loop; an iteration is   *)
(* one of Pop (line 29), Stop (line 32) or a fetch (line 34), and a fetch  *)
(* is the whole _fetch method of the iterator's class, or the collaborator *)
(* raising inside of it.                                                   *)
(***************************************************************************)
EXTENDS Naturals, Sequences, FiniteSets

\* ------------------------------------------------------------------ bounds
\* Characters are 1..MaxChar.
MaxChar == 2
\* The collaborator hands out at most MaxItems raw list elements (entries and
\* grouping keys) over the life of an iterator.
MaxItems == 2
\* The collaborator returns at most MaxFetch pages over the life of an iterator.
MaxFetch == 2

\* The listing service holds at most MaxServer uploads.
MaxServer == 3

\* Where the order of the pages is followed (SpecOrder) the collaborator returns
\* at most MaxOrderFetch pages.
MaxOrderFetch == 3

\* The default page-size hints of the constructors.
MaxKeysDefault == 100
MaxUploadsDefault == 1000
MaxPartsDefault == 1000

VARIABLES
    kind,                   \* the iterator's class
    object_name,            \* ObjectUploadIterator.object_name (else the empty string)
    is_truncated,           \* _BaseIterator.is_truncated
    next_marker,            \* _BaseIterator.next_marker
    next_upload_id_marker,  \* next_upload_id_marker of the two upload iterators
    entries,                \* _BaseIterator.entries, the buffer
    pc,                     \* "idle": no next() call is running; "loop": at line 27
    outcome,                \* how the last next() call ended
    callFetches,            \* collaborator calls made by the running next() call
    nfetch,                 \* pages the collaborator has returned so far
    nraw,                   \* raw list elements handed out so far
    call,                   \* the cursor arguments of the last collaborator call of
                            \* the running or last next() call
    returned,               \* the cursors of the last page (at first, the constructor's)
    lastPage,               \* the page the last loop iteration fetched, if it fetched
    shaped,                 \* the buffers the fetches have set, concatenated
    delivered,              \* the items next() has returned, in order
    exhausted,              \* next() has raised StopIteration
    server,                 \* the uploads a listing service holds (SpecServer)
    params,                 \* the query parameters the constructor stored
    query,                  \* the query arguments of the last collaborator call of
                            \* the running or last next() call
    failed,                 \* the cursor arguments of a collaborator call that
                            \* raised, until the collaborator returns a page
    matchPages,             \* pages returned to an ObjectUploadIterator that held an
                            \* upload of its target
    order,                  \* how the names of the pages followed each other
                            \* (SpecOrder)
    two                     \* two BucketIterator instances and their lists (SpecTwo)

vars == <<kind, object_name, is_truncated, next_marker, next_upload_id_marker,
          entries, pc, outcome, callFetches, nfetch, nraw, call, returned,
          lastPage, shaped, delivered, exhausted, server, params, query,
          failed, matchPages, order, two>>

\* ----------------------------------------------------------------- strings
Chars == 1..MaxChar
Empty == <<>>
\* The strings of the model: at most one character long.
Names == {Empty} \cup {<<c>> : c \in Chars}
\* Upload ids, which the iterators only store and pass on: the empty string
\* (the default marker) and one other.
Ids == {Empty, <<1>>}
\* The markers of the four classes that only store a marker and pass it on: the
\* empty string (the default) and one other.  ObjectUploadIterator compares its
\* key marker with an object name, so its key markers are Names.
Markers == {Empty, <<1>>}
\* Python's None, in the fields of a placeholder record.
None == <<0>>

\* a < b for Python str: the first differing character decides, and a proper
\* prefix sorts first.
RECURSIVE StrLess(_, _)
StrLess(a, b) ==
    IF b = <<>> THEN FALSE
    ELSE IF a = <<>> THEN TRUE
    ELSE IF Head(a) # Head(b) THEN Head(a) < Head(b)
    ELSE StrLess(Tail(a), Tail(b))

StrGreater(a, b) == StrLess(b, a)

\* ------------------------------------------------------------- collections
SeqsUpTo(S, n) == UNION {[1..k -> S] : k \in 0..n}

\* list.sort puts x into the sorted list t after every element whose key is not
\* greater than x's (the sort is stable).
InsertByKey(x, t, key) ==
    LET p == Cardinality({j \in 1..Len(t) : ~StrLess(key[x], key[t[j]])})
    IN  SubSeq(t, 1, p) \o <<x>> \o SubSeq(t, p + 1, Len(t))

\* list.sort(key=key): ascending by key, elements of equal keys keep their order.
SortByKey(s, key) ==
    LET sorted[i \in 0..Len(s)] ==
            IF i = 0 THEN <<>> ELSE InsertByKey(s[i], sorted[i - 1], key)
    IN  sorted[Len(s)]

\* ------------------------------------------------------------------ records
\* SimplifiedObjectInfo(name, last_modified, etag, type, size); the model keeps
\* the name and one of the other fields.
Etag == <<1>>
SimplifiedObjectInfo(name, etag) == [name |-> name, etag |-> etag]
\* MultipartUploadInfo(object_name, upload_id, initiation_time); the model keeps
\* the first two.
MultipartUploadInfo(name, upload_id) == [object_name |-> name, upload_id |-> upload_id]

\* The objects and uploads of a collaborator's lists.
Objects == {SimplifiedObjectInfo(n, Etag) : n \in Names}
Uploads == {MultipartUploadInfo(n, i) : n \in Names, i \in Ids}

\* The sort keys: lambda obj: obj.name and lambda u: u.object_name, on the
\* records and the placeholders of a buffer.
ObjectName ==
    [o \in {SimplifiedObjectInfo(n, e) : n \in Names, e \in {Etag, None}} |-> o.name]
UploadObjectName ==
    [u \in {MultipartUploadInfo(n, i) : n \in Names, i \in Ids \cup {None}} |->
        u.object_name]

Kinds == {"Bucket", "Object", "MultipartUpload", "ObjectUpload", "Part"}
UploadKinds == {"MultipartUpload", "ObjectUpload"}

\* ----------------------------------------------------- collaborator results
\* What service.list_buckets may return with at most n buckets.
ListBucketsResults(n) ==
    [buckets : SeqsUpTo(Names, n), is_truncated : BOOLEAN, next_marker : Markers]

\* What bucket.list_objects may return with at most n objects and prefixes.
ListObjectsResults(n) ==
    {r \in [object_list : SeqsUpTo(Objects, n), prefix_list : SeqsUpTo(Names, n),
            is_truncated : BOOLEAN, next_marker : Markers] :
        Len(r.object_list) + Len(r.prefix_list) <= n}

\* What bucket.list_multipart_uploads may return with at most n uploads and
\* prefixes and a next key marker among keys.
ListMultipartUploadsResults(n, keys) ==
    {r \in [upload_list : SeqsUpTo(Uploads, n), prefix_list : SeqsUpTo(Names, n),
            is_truncated : BOOLEAN, next_key_marker : keys,
            next_upload_id_marker : Ids] :
        Len(r.upload_list) + Len(r.prefix_list) <= n}

\* What bucket.list_parts may return with at most n parts.
ListPartsResults(n) ==
    [parts : SeqsUpTo(Names, n), is_truncated : BOOLEAN, next_marker : Markers]

\* ------------------------------------------------------------ _fetch methods
\* Each operator gives what the _fetch method of the class stores and returns
\* for a result of its collaborator: the buffer (self.entries), the upload-id
\* marker where the class has one, and the returned pair <<truncated, marker>>.

\* BucketIterator._fetch with the buckets sorted by name.
BucketIterator_fetch_sorted(result) ==
    [entries |-> SortByKey(result.buckets, [n \in Names |-> n]),
     ret |-> <<result.is_truncated, result.next_marker>>]

BucketIterator_fetch(result) ==
    [entries |-> result.buckets,
     ret |-> <<result.is_truncated, result.next_marker>>]

\* ObjectIterator._fetch without the sort of line 87.
ObjectIterator_fetch_unsorted(result) ==
    [entries |-> result.object_list
                 \o [i \in 1..Len(result.prefix_list) |->
                       SimplifiedObjectInfo(result.prefix_list[i], None)],
     ret |-> <<result.is_truncated, result.next_marker>>]

ObjectIterator_fetch(result) ==
    [entries |-> SortByKey(result.object_list
                           \o [i \in 1..Len(result.prefix_list) |->
                                 SimplifiedObjectInfo(result.prefix_list[i], None)],
                           ObjectName),
     ret |-> <<result.is_truncated, result.next_marker>>]

\* MultipartUploadIterator._fetch without the sort of line 118.
MultipartUploadIterator_fetch_unsorted(result) ==
    [entries |-> result.upload_list
                 \o [i \in 1..Len(result.prefix_list) |->
                       MultipartUploadInfo(result.prefix_list[i], None)],
     next_upload_id_marker |-> result.next_upload_id_marker,
     ret |-> <<result.is_truncated, result.next_key_marker>>]

MultipartUploadIterator_fetch(result) ==
    [entries |-> SortByKey(result.upload_list
                           \o [i \in 1..Len(result.prefix_list) |->
                                 MultipartUploadInfo(result.prefix_list[i], None)],
                           UploadObjectName),
     next_upload_id_marker |-> result.next_upload_id_marker,
     ret |-> <<result.is_truncated, result.next_key_marker>>]

\* The filter of line 136 with startswith for ==: the uploads whose object name
\* begins with the target.
ObjectUploadIterator_kept_prefix(name, result) ==
    SelectSeq(result.upload_list,
              LAMBDA u : /\ Len(name) <= Len(u.object_name)
                         /\ SubSeq(u.object_name, 1, Len(name)) = name)

\* The uploads of the page whose object name is the target (line 136).
ObjectUploadIterator_kept(name, result) ==
    SelectSeq(result.upload_list, LAMBDA u : u.object_name = name)

\* The truncation flag without the comparison of lines 142-143.
ObjectUploadIterator_truncated_noEarlyStop(name, result, kept) ==
    IF ~result.is_truncated \/ kept = <<>> THEN FALSE
    ELSE result.is_truncated

\* The truncation flag with >= for > in line 142.
ObjectUploadIterator_truncated_ge(name, result, kept) ==
    IF ~result.is_truncated \/ kept = <<>> THEN FALSE
    ELSE IF ~StrLess(result.next_key_marker, name) THEN FALSE
    ELSE result.is_truncated

\* The truncation flag without the test of the kept uploads in line 139.
ObjectUploadIterator_truncated_ignoreKept(name, result, kept) ==
    IF ~result.is_truncated THEN FALSE
    ELSE IF StrGreater(result.next_key_marker, name) THEN FALSE
    ELSE result.is_truncated

\* The truncation flag ObjectUploadIterator._fetch returns (lines 139-145).
\* The returned flag with no early stop at all: the page's own flag, as
\* MultipartUploadIterator returns it.
ObjectUploadIterator_truncated_raw(name, result, kept) == result.is_truncated

ObjectUploadIterator_truncated(name, result, kept) ==
    IF ~result.is_truncated \/ kept = <<>> THEN FALSE
    ELSE IF StrGreater(result.next_key_marker, name) THEN FALSE
    ELSE result.is_truncated

ObjectUploadIterator_fetch(name, result) ==
    LET kept == ObjectUploadIterator_kept(name, result)
    IN  [entries |-> kept,
         next_upload_id_marker |-> result.next_upload_id_marker,
         ret |-> <<ObjectUploadIterator_truncated(name, result, kept),
                   result.next_key_marker>>]

PartIterator_fetch(result) ==
    [entries |-> result.parts,
     ret |-> <<result.is_truncated, result.next_marker>>]

\* The cursor arguments with the marker left at its default.
SingleCursorArgs_restart == [marker |-> Empty, upload_id_marker |-> None]
\* The cursor arguments of the upload iterators without the upload-id marker.
UploadCursorArgs_keyOnly == [marker |-> next_marker, upload_id_marker |-> Empty]

\* The cursor arguments the _fetch method of the iterator's class passes to its
\* collaborator.
SingleCursorArgs == [marker |-> next_marker, upload_id_marker |-> None]
UploadCursorArgs == [marker |-> next_marker, upload_id_marker |-> next_upload_id_marker]
CallArgs == IF kind \in UploadKinds THEN UploadCursorArgs ELSE SingleCursorArgs

\* ------------------------------------------------------------------- state
NoPage == [none |-> TRUE]
NoCall == [none |-> TRUE]

\* The query parameters the constructor of class k has stored: a prefix and a
\* delimiter that are not the defaults, and the default page-size hint.
\* ObjectUploadIterator stores only object_name, PartIterator an object name
\* and an upload id.
Params(k) ==
    CASE k = "Bucket" -> [prefix |-> <<1>>, max_keys |-> MaxKeysDefault]
      [] k = "Object" ->
           [prefix |-> <<1>>, delimiter |-> <<2>>, max_keys |-> MaxKeysDefault]
      [] k = "MultipartUpload" ->
           [prefix |-> <<1>>, delimiter |-> <<2>>, max_uploads |-> MaxUploadsDefault]
      [] k = "ObjectUpload" -> [none |-> TRUE]
      [] k = "Part" ->
           [object_name |-> <<1>>, upload_id |-> <<2>>, max_parts |-> MaxPartsDefault]

\* list_multipart_uploads called without the delimiter.
MultipartUploadIterator_query_noDelimiter ==
    [prefix |-> params.prefix, delimiter |-> Empty, max_uploads |-> params.max_uploads]

\* The arguments other than the cursors that each _fetch passes (lines 55-57,
\* 81-84, 112-116, 132, 166-168).
BucketIterator_query ==
    [prefix |-> params.prefix, max_keys |-> params.max_keys]
ObjectIterator_query ==
    [prefix |-> params.prefix, delimiter |-> params.delimiter,
     max_keys |-> params.max_keys]
MultipartUploadIterator_query ==
    [prefix |-> params.prefix, delimiter |-> params.delimiter,
     max_uploads |-> params.max_uploads]
ObjectUploadIterator_query == [prefix |-> object_name]
PartIterator_query ==
    [object_name |-> params.object_name, upload_id |-> params.upload_id,
     max_parts |-> params.max_parts]
QueryArgs ==
    CASE kind = "Bucket" -> BucketIterator_query
      [] kind = "Object" -> ObjectIterator_query
      [] kind = "MultipartUpload" -> MultipartUploadIterator_query
      [] kind = "ObjectUpload" -> ObjectUploadIterator_query
      [] kind = "Part" -> PartIterator_query

\* The page holds an upload of the ObjectUploadIterator's target.
HoldsTarget(result) ==
    /\ kind = "ObjectUpload"
    /\ \E i \in 1..Len(result.upload_list) :
         result.upload_list[i].object_name = object_name

\* The names of a page of objects or of uploads: those of its entries and its
\* grouping keys.
PageNames(result) ==
    IF "object_list" \in DOMAIN result
    THEN {result.object_list[i].name : i \in 1..Len(result.object_list)}
         \cup {result.prefix_list[i] : i \in 1..Len(result.prefix_list)}
    ELSE IF "upload_list" \in DOMAIN result
    THEN {result.upload_list[i].object_name : i \in 1..Len(result.upload_list)}
         \cup {result.prefix_list[i] : i \in 1..Len(result.prefix_list)}
    ELSE {}
\* The greatest of the names, None if there is none.
MaxName(names) ==
    IF names = {} THEN None
    ELSE CHOOSE m \in names : \A n \in names : ~StrLess(m, n)
\* No name is less than m, which is a name or None.
NoneBelow(names, m) == m = None \/ \A n \in names : ~StrLess(n, m)

\* The order of the pages is not followed.
NoOrder == [none |-> TRUE]
\* No page yet.
OrderStart == [adjacent |-> TRUE, all |-> TRUE, prev |-> None, seen |-> None]
\* The order after one more page: adjacent says that no page so far had a name
\* less than a name of the page returned just before it, all that no page so
\* far had a name less than a name of any earlier page; prev is the greatest
\* name of the page returned last, seen that of all pages.
Followed(o, result) ==
    LET names == PageNames(result)
        m == MaxName(names)
    IN  [adjacent |-> o.adjacent /\ NoneBelow(names, o.prev),
         all |-> o.all /\ NoneBelow(names, o.seen),
         prev |-> m,
         seen |-> IF m = None THEN o.seen
                  ELSE IF o.seen = None \/ StrLess(o.seen, m) THEN m
                  ELSE o.seen]

\* The pages the collaborator returns at most.
PageLimit == IF order = NoOrder THEN MaxFetch ELSE MaxOrderFetch

\* SpecTwo is not run.
NoTwo == [none |-> TRUE]

\* The constructors: no collaborator call, is_truncated = True, the buffer
\* empty, the cursors as given (ObjectUploadIterator starts from '' and '').
Init ==
    /\ kind \in Kinds
    /\ object_name \in (IF kind = "ObjectUpload" THEN Names ELSE {Empty})
    /\ is_truncated = TRUE
    /\ next_marker \in (IF kind = "ObjectUpload" THEN {Empty} ELSE Markers)
    /\ next_upload_id_marker \in
         (IF kind = "MultipartUpload" THEN Ids
          ELSE IF kind = "ObjectUpload" THEN {Empty} ELSE {None})
    /\ entries = <<>>
    /\ pc = "idle"
    /\ outcome = "none"
    /\ callFetches = 0
    /\ nfetch = 0
    /\ nraw = 0
    /\ call = NoCall
    /\ returned = [is_truncated |-> TRUE, marker |-> next_marker,
                   upload_id_marker |-> next_upload_id_marker]
    /\ lastPage = NoPage
    /\ shaped = <<>>
    /\ delivered = <<>>
    /\ exhausted = FALSE
    /\ server = <<>>
    /\ params = Params(kind)
    /\ query = NoCall
    /\ failed = NoCall
    /\ matchPages = 0
    /\ order = NoOrder
    /\ two = NoTwo

\* ------------------------------------------------------------------ next()
\* The caller calls next(): control enters the loop of __next__.
Call ==
    /\ pc = "idle"
    /\ pc' = "loop"
    /\ outcome' = "none"
    /\ callFetches' = 0
    /\ call' = NoCall
    /\ UNCHANGED <<kind, object_name, is_truncated, next_marker,
                   next_upload_id_marker, entries, nfetch, nraw, returned,
                   lastPage, shaped, delivered, exhausted, server>>
    /\ query' = NoCall
    /\ UNCHANGED <<params, failed, matchPages, order, two>>

\* Pop as entries.pop() would have it: the last item is removed and returned.
Pop_last ==
    /\ pc = "loop"
    /\ entries # <<>>
    /\ delivered' = Append(delivered, entries[Len(entries)])
    /\ entries' = SubSeq(entries, 1, Len(entries) - 1)
    /\ pc' = "idle"
    /\ outcome' = "item"
    /\ lastPage' = NoPage
    /\ UNCHANGED <<kind, object_name, is_truncated, next_marker,
                   next_upload_id_marker, callFetches, nfetch, nraw, call,
                   returned, shaped, exhausted, server>>
    /\ UNCHANGED <<params, query, failed, matchPages, order, two>>

\* Lines 28-29: the buffer is not empty; its first item is removed and returned.
Pop ==
    /\ pc = "loop"
    /\ entries # <<>>
    /\ delivered' = Append(delivered, Head(entries))
    /\ entries' = Tail(entries)
    /\ pc' = "idle"
    /\ outcome' = "item"
    /\ lastPage' = NoPage
    /\ UNCHANGED <<kind, object_name, is_truncated, next_marker,
                   next_upload_id_marker, callFetches, nfetch, nraw, call,
                   returned, shaped, exhausted, server>>
    /\ UNCHANGED <<params, query, failed, matchPages, order, two>>

\* Stop without the test of is_truncated: StopIteration whenever the buffer is
\* empty.
Stop_whenEmpty ==
    /\ pc = "loop"
    /\ entries = <<>>
    /\ pc' = "idle"
    /\ outcome' = "stop"
    /\ exhausted' = TRUE
    /\ lastPage' = NoPage
    /\ UNCHANGED <<kind, object_name, is_truncated, next_marker,
                   next_upload_id_marker, entries, callFetches, nfetch, nraw,
                   call, returned, shaped, delivered, server>>
    /\ UNCHANGED <<params, query, failed, matchPages, order, two>>

\* Stop with the test of is_truncated inverted.
Stop_whenTruncated ==
    /\ pc = "loop"
    /\ entries = <<>>
    /\ is_truncated
    /\ pc' = "idle"
    /\ outcome' = "stop"
    /\ exhausted' = TRUE
    /\ lastPage' = NoPage
    /\ UNCHANGED <<kind, object_name, is_truncated, next_marker,
                   next_upload_id_marker, entries, callFetches, nfetch, nraw,
                   call, returned, shaped, delivered, server>>
    /\ UNCHANGED <<params, query, failed, matchPages, order, two>>

\* Stop that does not raise: the loop goes round with nothing changed.
Stop_spins ==
    /\ pc = "loop"
    /\ entries = <<>>
    /\ ~is_truncated
    /\ UNCHANGED vars

\* Stop that arms the iterator again: is_truncated is set back to True.
Stop_restarts ==
    /\ pc = "loop"
    /\ entries = <<>>
    /\ ~is_truncated
    /\ pc' = "idle"
    /\ outcome' = "stop"
    /\ exhausted' = TRUE
    /\ lastPage' = NoPage
    /\ is_truncated' = TRUE
    /\ UNCHANGED <<kind, object_name, next_marker,
                   next_upload_id_marker, entries, callFetches, nfetch, nraw,
                   call, returned, shaped, delivered, server>>
    /\ UNCHANGED <<params, query, failed, matchPages, order, two>>

\* Lines 31-32: the buffer is empty and no page is left: StopIteration.
Stop ==
    /\ pc = "loop"
    /\ entries = <<>>
    /\ ~is_truncated
    /\ pc' = "idle"
    /\ outcome' = "stop"
    /\ exhausted' = TRUE
    /\ lastPage' = NoPage
    /\ UNCHANGED <<kind, object_name, is_truncated, next_marker,
                   next_upload_id_marker, entries, callFetches, nfetch, nraw,
                   call, returned, shaped, delivered, server>>
    /\ UNCHANGED <<params, query, failed, matchPages, order, two>>

\* AtFetch without the test of the buffer: a fetch while items are buffered.
AtFetch_ignoreBuffer ==
    /\ pc = "loop"
    /\ is_truncated

\* Line 34 is reached: the buffer is empty and a page is left.
AtFetch ==
    /\ pc = "loop"
    /\ entries = <<>>
    /\ is_truncated

\* Line 34 is reached and the collaborator has a page left to return.
MustFetch ==
    /\ AtFetch
    /\ nfetch < PageLimit

\* What a fetch leaves besides the iterator's fields: the call made, the page
\* received, and control back at the top of the loop.
Fetched(result, cursors, n) ==
    /\ call' = CallArgs
    /\ lastPage' = result
    /\ returned' = cursors
    /\ shaped' = shaped \o entries'
    /\ nraw' = nraw + n
    /\ nfetch' = nfetch + 1
    /\ callFetches' = callFetches + 1
    /\ UNCHANGED <<kind, object_name, pc, outcome, delivered, exhausted, server>>
    /\ query' = QueryArgs
    /\ matchPages' = matchPages + (IF HoldsTarget(result) THEN 1 ELSE 0)
    /\ order' = IF order = NoOrder THEN NoOrder ELSE Followed(order, result)
    /\ failed' = NoCall
    /\ UNCHANGED <<params, two>>

FetchBucket ==
    /\ kind = "Bucket"
    /\ MustFetch
    /\ \E result \in ListBucketsResults(MaxItems - nraw) :
         LET f == BucketIterator_fetch(result)
         IN  /\ entries' = f.entries
             /\ is_truncated' = f.ret[1]
             /\ next_marker' = f.ret[2]
             /\ UNCHANGED next_upload_id_marker
             /\ Fetched(result,
                        [is_truncated |-> result.is_truncated,
                         marker |-> result.next_marker, upload_id_marker |-> None],
                        Len(result.buckets))

FetchObject ==
    /\ kind = "Object"
    /\ MustFetch
    /\ \E result \in ListObjectsResults(MaxItems - nraw) :
         LET f == ObjectIterator_fetch(result)
         IN  /\ entries' = f.entries
             /\ is_truncated' = f.ret[1]
             /\ next_marker' = f.ret[2]
             /\ UNCHANGED next_upload_id_marker
             /\ Fetched(result,
                        [is_truncated |-> result.is_truncated,
                         marker |-> result.next_marker, upload_id_marker |-> None],
                        Len(result.object_list) + Len(result.prefix_list))

FetchMultipartUpload ==
    /\ kind = "MultipartUpload"
    /\ MustFetch
    /\ \E result \in ListMultipartUploadsResults(MaxItems - nraw, Markers) :
         LET f == MultipartUploadIterator_fetch(result)
         IN  /\ entries' = f.entries
             /\ next_upload_id_marker' = f.next_upload_id_marker
             /\ is_truncated' = f.ret[1]
             /\ next_marker' = f.ret[2]
             /\ Fetched(result,
                        [is_truncated |-> result.is_truncated,
                         marker |-> result.next_key_marker,
                         upload_id_marker |-> result.next_upload_id_marker],
                        Len(result.upload_list) + Len(result.prefix_list))

\* ObjectUploadIterator passes no delimiter and never reads result.prefix_list:
\* the pages offered to it carry none.
FetchObjectUpload ==
    /\ kind = "ObjectUpload"
    /\ MustFetch
    /\ \E result \in {r \in ListMultipartUploadsResults(MaxItems - nraw, Names) :
                         r.prefix_list = <<>>} :
         LET f == ObjectUploadIterator_fetch(object_name, result)
         IN  /\ entries' = f.entries
             /\ next_upload_id_marker' = f.next_upload_id_marker
             /\ is_truncated' = f.ret[1]
             /\ next_marker' = f.ret[2]
             /\ Fetched(result,
                        [is_truncated |-> result.is_truncated,
                         marker |-> result.next_key_marker,
                         upload_id_marker |-> result.next_upload_id_marker],
                        Len(result.upload_list))

FetchPart ==
    /\ kind = "Part"
    /\ MustFetch
    /\ \E result \in ListPartsResults(MaxItems - nraw) :
         LET f == PartIterator_fetch(result)
         IN  /\ entries' = f.entries
             /\ is_truncated' = f.ret[1]
             /\ next_marker' = f.ret[2]
             /\ UNCHANGED next_upload_id_marker
             /\ Fetched(result,
                        [is_truncated |-> result.is_truncated,
                         marker |-> result.next_marker, upload_id_marker |-> None],
                        Len(result.parts))

\* The collaborator raises and the iteration is taken to be over: is_truncated
\* is set to False.
FetchRaise_stops ==
    /\ MustFetch
    /\ call' = CallArgs
    /\ callFetches' = callFetches + 1
    /\ pc' = "idle"
    /\ outcome' = "error"
    /\ lastPage' = NoPage
    /\ is_truncated' = FALSE
    /\ UNCHANGED <<kind, object_name, next_marker,
                   next_upload_id_marker, entries, nfetch, nraw, returned,
                   shaped, delivered, exhausted, server>>
    /\ query' = QueryArgs
    /\ failed' = CallArgs
    /\ UNCHANGED <<params, matchPages, order, two>>

\* The collaborator raises: every _fetch calls it before it stores anything, so
\* the exception leaves next() with the iterator's fields as they were.
FetchRaise ==
    /\ MustFetch
    /\ call' = CallArgs
    /\ callFetches' = callFetches + 1
    /\ pc' = "idle"
    /\ outcome' = "error"
    /\ lastPage' = NoPage
    /\ UNCHANGED <<kind, object_name, is_truncated, next_marker,
                   next_upload_id_marker, entries, nfetch, nraw, returned,
                   shaped, delivered, exhausted, server>>
    /\ query' = QueryArgs
    /\ failed' = CallArgs
    /\ UNCHANGED <<params, matchPages, order, two>>

Next ==
    \/ Call
    \/ Pop
    \/ Stop
    \/ FetchBucket
    \/ FetchObject
    \/ FetchMultipartUpload
    \/ FetchObjectUpload
    \/ FetchPart
    \/ FetchRaise

Spec == Init /\ [][Next]_vars

\* ------------------------------------------------- a page sequence that ends
\* The collaborator's page sequence is finite and its last page says not
\* truncated: the page that uses up the collaborator's pages says so.
FinitePages == nfetch' = PageLimit => ~lastPage'.is_truncated

\* The two classes whose _fetch takes the page as it is: the buffer is empty
\* exactly when the page is, and is_truncated is the page's flag, so every
\* combination the loop of __next__ can meet occurs.
InitLive ==
    /\ Init
    /\ kind \in {"Bucket", "Part"}

FetchFinite ==
    /\ \/ FetchBucket
       \/ FetchPart
    /\ FinitePages

NextLive ==
    \/ Call
    \/ Pop
    \/ Stop
    \/ FetchFinite

\* The caller goes on calling next(), a running next() call goes on running,
\* and the collaborator answers.
SpecLive ==
    /\ InitLive
    /\ [][NextLive]_vars
    /\ WF_vars(Call)
    /\ WF_vars(Pop \/ Stop \/ FetchFinite)

\* ------------------------------------------- the order of the pages followed
\* An ObjectIterator or a MultipartUploadIterator constructed with the default
\* markers, with the order of the names of its pages followed.
InitOrder ==
    /\ kind \in {"Object", "MultipartUpload"}
    /\ object_name = Empty
    /\ is_truncated = TRUE
    /\ next_marker = Empty
    /\ next_upload_id_marker = (IF kind = "MultipartUpload" THEN Empty ELSE None)
    /\ entries = <<>>
    /\ pc = "idle"
    /\ outcome = "none"
    /\ callFetches = 0
    /\ nfetch = 0
    /\ nraw = 0
    /\ call = NoCall
    /\ returned = [is_truncated |-> TRUE, marker |-> next_marker,
                   upload_id_marker |-> next_upload_id_marker]
    /\ lastPage = NoPage
    /\ shaped = <<>>
    /\ delivered = <<>>
    /\ exhausted = FALSE
    /\ server = <<>>
    /\ params = Params(kind)
    /\ query = NoCall
    /\ failed = NoCall
    /\ matchPages = 0
    /\ order = OrderStart
    /\ two = NoTwo

\* The order of the names does not depend on the cursors: the pages of uploads
\* carry the empty string for both.
FetchMultipartUploadInOrder ==
    /\ FetchMultipartUpload
    /\ lastPage'.next_key_marker = Empty
    /\ lastPage'.next_upload_id_marker = Empty

NextOrder ==
    \/ Call
    \/ Pop
    \/ Stop
    \/ FetchObject
    \/ FetchMultipartUploadInOrder

SpecOrder == InitOrder /\ [][NextOrder]_vars

\* ------------------------------------------------- an ordered upload listing
\* A listing service as ObjectUploadIterator expects it: it holds uploads, lists
\* them in ascending order of object name and then upload id, lists only those
\* whose object name starts with the prefix asked for, resumes strictly after
\* the markers asked for, and names the last upload of a truncated page as the
\* next markers.  Object names and upload ids of uploads are not empty.
ServerNames == {s \in SeqsUpTo(Chars, 2) : s # Empty}
ServerIds == {<<1>>, <<2>>}
ServerUploads == {MultipartUploadInfo(n, i) : n \in ServerNames, i \in ServerIds}

UploadLess(u, v) ==
    \/ StrLess(u.object_name, v.object_name)
    \/ u.object_name = v.object_name /\ StrLess(u.upload_id, v.upload_id)

ServerStates ==
    {s \in SeqsUpTo(ServerUploads, MaxServer) :
        \A i \in 1..Len(s) - 1 : UploadLess(s[i], s[i + 1])}

StartsWith(s, prefix) ==
    Len(prefix) <= Len(s) /\ SubSeq(s, 1, Len(prefix)) = prefix

\* The uploads the service has yet to list for a query.
ServerRest(held, args) ==
    SelectSeq(held,
              LAMBDA u :
                  /\ StartsWith(u.object_name, args.prefix)
                  /\ \/ StrLess(args.key_marker, u.object_name)
                     \/ /\ u.object_name = args.key_marker
                        /\ StrLess(args.upload_id_marker, u.upload_id))

\* The page of the first k of them.
ServerPage(held, args, k) ==
    LET rest == ServerRest(held, args)
        more == k < Len(rest)
    IN  [upload_list |-> SubSeq(rest, 1, k),
         prefix_list |-> <<>>,
         is_truncated |-> more,
         next_key_marker |-> IF more THEN rest[k].object_name ELSE Empty,
         next_upload_id_marker |-> IF more THEN rest[k].upload_id ELSE Empty]

\* The page sizes the service may choose: at least one upload if any is left.
ServerPageSizes(held, args) ==
    LET n == Len(ServerRest(held, args))
    IN  IF n = 0 THEN {0} ELSE 1..n

\* The arguments without the prefix.
ObjectUploadIterator_args_noPrefix ==
    [prefix |-> Empty,
     key_marker |-> next_marker,
     upload_id_marker |-> next_upload_id_marker]

\* The arguments ObjectUploadIterator._fetch passes (lines 132-134).
ObjectUploadIterator_args ==
    [prefix |-> object_name,
     key_marker |-> next_marker,
     upload_id_marker |-> next_upload_id_marker]

InitServer ==
    /\ kind = "ObjectUpload"
    /\ object_name \in ServerNames
    /\ server \in ServerStates
    /\ is_truncated = TRUE
    /\ next_marker = Empty
    /\ next_upload_id_marker = Empty
    /\ entries = <<>>
    /\ pc = "idle"
    /\ outcome = "none"
    /\ callFetches = 0
    /\ nfetch = 0
    /\ nraw = 0
    /\ call = NoCall
    /\ returned = [is_truncated |-> TRUE, marker |-> next_marker,
                   upload_id_marker |-> next_upload_id_marker]
    /\ lastPage = NoPage
    /\ shaped = <<>>
    /\ delivered = <<>>
    /\ exhausted = FALSE
    /\ params = Params(kind)
    /\ query = NoCall
    /\ failed = NoCall
    /\ matchPages = 0
    /\ order = NoOrder
    /\ two = NoTwo

\* ObjectUploadIterator._fetch against the ordered listing service.
FetchObjectUploadFromServer ==
    /\ kind = "ObjectUpload"
    /\ AtFetch
    /\ \E k \in ServerPageSizes(server, ObjectUploadIterator_args) :
         LET result == ServerPage(server, ObjectUploadIterator_args, k)
             f == ObjectUploadIterator_fetch(object_name, result)
         IN  /\ entries' = f.entries
             /\ next_upload_id_marker' = f.next_upload_id_marker
             /\ is_truncated' = f.ret[1]
             /\ next_marker' = f.ret[2]
             /\ Fetched(result,
                        [is_truncated |-> result.is_truncated,
                         marker |-> result.next_key_marker,
                         upload_id_marker |-> result.next_upload_id_marker],
                        Len(result.upload_list))

NextServer ==
    \/ Call
    \/ Pop
    \/ Stop
    \/ FetchObjectUploadFromServer

SpecServer == InitServer /\ [][NextServer]_vars

\* ----------------------------------------------------------- two instances
\* Two BucketIterator instances, each constructed with the default marker,
\* with calls of next() on them interleaved statement by statement.  Lists are
\* objects: two.heap holds their contents and an instance's entries field
\* refers to one of them.  self.entries = [] (line 18) makes a new list for
\* each instance; the collaborator makes a new list for each result, and
\* BucketIterator._fetch stores that very list (line 58); pop(0) (line 29)
\* changes the list the field refers to.  The collaborator hands out at most
\* MaxItems buckets in at most MaxFetch pages to the two together.
Instances == {1, 2}

\* The fields of the single iterator, which SpecTwo leaves alone.
one == <<kind, object_name, is_truncated, next_marker, next_upload_id_marker,
         entries, pc, outcome, callFetches, nfetch, nraw, call, returned,
         lastPage, shaped, delivered, exhausted, server, params, query,
         failed, matchPages, order>>

InitTwo ==
    /\ kind = "Bucket"
    /\ object_name = Empty
    /\ is_truncated = TRUE
    /\ next_marker = Empty
    /\ next_upload_id_marker = None
    /\ entries = <<>>
    /\ pc = "idle"
    /\ outcome = "none"
    /\ callFetches = 0
    /\ nfetch = 0
    /\ nraw = 0
    /\ call = NoCall
    /\ returned = [is_truncated |-> TRUE, marker |-> next_marker,
                   upload_id_marker |-> next_upload_id_marker]
    /\ lastPage = NoPage
    /\ shaped = <<>>
    /\ delivered = <<>>
    /\ exhausted = FALSE
    /\ server = <<>>
    /\ params = Params(kind)
    /\ query = NoCall
    /\ failed = NoCall
    /\ matchPages = 0
    /\ order = NoOrder
    /\ two = [inst |-> [i \in Instances |->
                          [is_truncated |-> TRUE,
                           next_marker |-> Empty,
                           entries |-> i,
                           pc |-> "idle",
                           delivered |-> <<>>,
                           given |-> <<>>,
                           exhausted |-> FALSE]],
              heap |-> << <<>>, <<>> >>,
              pages |-> 0,
              raw |-> 0,
              actor |-> 0]

\* The caller calls next() on instance i.
TwoCall(i) ==
    /\ two.inst[i].pc = "idle"
    /\ two' = [two EXCEPT !.inst[i].pc = "loop", !.actor = i]
    /\ UNCHANGED one

\* Lines 28-29 on instance i: pop(0) on the list its entries field refers to.
TwoPop(i) ==
    LET me == two.inst[i]
        list == two.heap[me.entries]
    IN  /\ me.pc = "loop"
        /\ list # <<>>
        /\ two' = [two EXCEPT !.heap[me.entries] = Tail(list),
                              !.inst[i].delivered = Append(me.delivered, Head(list)),
                              !.inst[i].pc = "idle",
                              !.actor = i]
        /\ UNCHANGED one

\* Lines 31-32 on instance i.
TwoStop(i) ==
    LET me == two.inst[i]
    IN  /\ me.pc = "loop"
        /\ two.heap[me.entries] = <<>>
        /\ ~me.is_truncated
        /\ two' = [two EXCEPT !.inst[i].pc = "idle",
                              !.inst[i].exhausted = TRUE,
                              !.actor = i]
        /\ UNCHANGED one

\* The fetch with the result's list stored in an attribute of the class: the
\* entries field of every instance comes to refer to it.
TwoFetch_classAttribute(i) ==
    LET me == two.inst[i]
    IN  /\ me.pc = "loop"
        /\ two.heap[me.entries] = <<>>
        /\ me.is_truncated
        /\ two.pages < MaxFetch
        /\ \E result \in ListBucketsResults(MaxItems - two.raw) :
             LET f == BucketIterator_fetch(result)
                 ref == Len(two.heap) + 1
             IN  two' = [two EXCEPT
                           !.heap = Append(two.heap, f.entries),
                           !.inst = [j \in Instances |->
                                       IF j = i
                                       THEN [me EXCEPT
                                               !.entries = ref,
                                               !.is_truncated = f.ret[1],
                                               !.next_marker = f.ret[2],
                                               !.given = me.given \o result.buckets]
                                       ELSE [two.inst[j] EXCEPT !.entries = ref]],
                           !.pages = two.pages + 1,
                           !.raw = two.raw + Len(result.buckets),
                           !.actor = i]
        /\ UNCHANGED one

\* Line 34 on instance i, with BucketIterator._fetch (lines 54-60): the
\* collaborator's new list becomes the instance's buffer.
TwoFetch(i) ==
    LET me == two.inst[i]
    IN  /\ me.pc = "loop"
        /\ two.heap[me.entries] = <<>>
        /\ me.is_truncated
        /\ two.pages < MaxFetch
        /\ \E result \in ListBucketsResults(MaxItems - two.raw) :
             LET f == BucketIterator_fetch(result)
                 ref == Len(two.heap) + 1
             IN  two' = [two EXCEPT
                           !.heap = Append(two.heap, f.entries),
                           !.inst[i] = [me EXCEPT
                                          !.entries = ref,
                                          !.is_truncated = f.ret[1],
                                          !.next_marker = f.ret[2],
                                          !.given = me.given \o result.buckets],
                           !.pages = two.pages + 1,
                           !.raw = two.raw + Len(result.buckets),
                           !.actor = i]
        /\ UNCHANGED one

NextTwo ==
    \E i \in Instances :
        \/ TwoCall(i)
        \/ TwoPop(i)
        \/ TwoStop(i)
        \/ TwoFetch(i)

SpecTwo == InitTwo /\ [][NextTwo]_vars

\* ------------------------------------------------------------------ claims
\* A loop iteration of the running next() call has just fetched a page.
JustFetched == pc = "loop" /\ lastPage # NoPage
\* The step is a collaborator call.
FetchStep == callFetches' = callFetches + 1

\* C1: for the four classes without early stop, the items delivered so far
\* followed by the buffer are the concatenation, in page order, of the buffers
\* the fetches have set; the iterator goes on exactly while the last page said
\* truncated; and once StopIteration has been raised everything fetched has been
\* delivered, the last page said not truncated, and every next() call that has
\* returned since raised StopIteration.
C1_ExhaustionConcatenation ==
    kind # "ObjectUpload" =>
        /\ delivered \o entries = shaped
        /\ is_truncated = returned.is_truncated
        /\ exhausted =>
             /\ delivered = shaped
             /\ ~returned.is_truncated
             /\ pc = "idle" => outcome = "stop"

\* Two pages of one item each have been delivered and the sequence has ended.
C1_Witness ==
    /\ kind = "MultipartUpload"
    /\ exhausted
    /\ outcome = "stop"
    /\ nfetch = 2
    /\ callFetches = 0
    /\ Len(delivered) = 2
    /\ delivered[1] # delivered[2]

\* C2: after a fetch that left the buffer empty and truncated true, the next
\* step of the loop is another collaborator call, never StopIteration.
C2_EmptyTruncatedPageRefetches ==
    [][(JustFetched /\ entries = <<>> /\ is_truncated)
         => (FetchStep /\ outcome' # "stop")]_vars

\* The re-fetch has happened, and it too came back empty and truncated.
C2_Witness ==
    /\ JustFetched
    /\ callFetches = 2
    /\ entries = <<>>
    /\ is_truncated

\* C3 as stated: no next() call makes more than one collaborator call.
C3_AtMostOneFetchPerCall == callFetches <= 1

\* C3 as amended: an iteration of the loop of next() makes a collaborator call
\* exactly when the buffer is empty and truncated is true; so a call entered
\* with items buffered or with truncated false makes none, and a call entered
\* with an empty buffer and truncated true makes one and then one more each time
\* the page fetched leaves the buffer empty and truncated true.
C3_FetchIffEmptyAndTruncated ==
    [][pc = "loop" => (FetchStep <=> (entries = <<>> /\ is_truncated))]_vars

\* A next() call that made two collaborator calls has returned an item.
C3_Witness ==
    /\ pc = "idle"
    /\ outcome = "item"
    /\ callFetches = 2

\* C4: an iteration of the loop raises StopIteration exactly when the buffer is
\* empty and truncated is false, and never before the collaborator has returned
\* a page.
C4_ExhaustedIffEmptyAndNotTruncated ==
    [][pc = "loop" =>
         /\ (outcome' = "stop") <=> (entries = <<>> /\ ~is_truncated)
         /\ (outcome' = "stop") => nfetch >= 1]_vars

\* The first next() call fetched an empty last page and raised StopIteration.
C4_Witness ==
    /\ outcome = "stop"
    /\ callFetches = 1
    /\ nfetch = 1
    /\ delivered = <<>>

\* C5: every collaborator call is given the cursor the previous page returned
\* (the constructor's, for the first call), and a step that is no successful
\* fetch leaves the stored cursor alone.
C5_CursorThreaded ==
    [][/\ FetchStep => call'.marker = returned.marker
       /\ lastPage' = NoPage => next_marker' = next_marker]_vars

\* A second page has been asked for with the cursor of the first.
C5_Witness ==
    /\ kind = "Bucket"
    /\ JustFetched
    /\ nfetch = 2
    /\ delivered # <<>>
    /\ call.marker = <<1>>
    /\ returned.marker = Empty

\* C6: for the two upload iterators, every collaborator call is given the key
\* marker and the upload-id marker of the same page, the previous one (for the
\* first call, the constructor's two).
C6_CompoundCursor ==
    [][(kind \in UploadKinds /\ FetchStep)
         => call' = [marker |-> returned.marker,
                     upload_id_marker |-> returned.upload_id_marker]]_vars

\* A second page of uploads has been asked for with both markers of the first.
C6_Witness ==
    /\ kind = "ObjectUpload"
    /\ JustFetched
    /\ nfetch = 2
    /\ call = [marker |-> <<1>>, upload_id_marker |-> <<1>>]

\* The uploads of a page whose object name is name, in the page's order.
ExactMatches(page, name) ==
    SelectSeq(page.upload_list, LAMBDA u : u.object_name = name)
HasExactMatch(page, name) ==
    \E i \in 1..Len(page.upload_list) : page.upload_list[i].object_name = name

\* C7: in ObjectUploadIterator, a fetch of a truncated page that holds an upload
\* of the target and whose next key marker is greater than the target leaves
\* truncated false and the buffer holding exactly the page's uploads of the
\* target; and while truncated is false no collaborator call is made and
\* truncated stays false.
C7_EarlyStop ==
    /\ [](( /\ kind = "ObjectUpload"
            /\ JustFetched
            /\ lastPage.is_truncated
            /\ HasExactMatch(lastPage, object_name)
            /\ StrGreater(lastPage.next_key_marker, object_name))
          => (~is_truncated /\ entries = ExactMatches(lastPage, object_name)))
    /\ [][(kind = "ObjectUpload" /\ ~is_truncated)
            => (~FetchStep /\ ~is_truncated')]_vars

\* The one page fetched was truncated with a next key marker past the target;
\* its upload of the target was delivered and the sequence ended with no second
\* collaborator call.
C7_Witness ==
    /\ kind = "ObjectUpload"
    /\ exhausted
    /\ nfetch = 1
    /\ Len(delivered) = 1
    /\ nraw = 2
    /\ returned.is_truncated
    /\ StrGreater(returned.marker, object_name)

\* C8: in ObjectUploadIterator, a fetch of a truncated page that holds an upload
\* of the target and whose next key marker is not greater than the target leaves
\* truncated true and both markers those of the page; and when the buffer has
\* been drained the loop calls the collaborator again with these markers.
C8_Continue ==
    /\ [](( /\ kind = "ObjectUpload"
            /\ JustFetched
            /\ lastPage.is_truncated
            /\ HasExactMatch(lastPage, object_name)
            /\ ~StrGreater(lastPage.next_key_marker, object_name))
          => /\ is_truncated
             /\ next_marker = lastPage.next_key_marker
             /\ next_upload_id_marker = lastPage.next_upload_id_marker)
    /\ [][( /\ kind = "ObjectUpload"
            /\ pc = "loop"
            /\ nfetch >= 1
            /\ entries = <<>>
            /\ is_truncated)
          => /\ FetchStep
             /\ call' = [marker |-> next_marker,
                         upload_id_marker |-> next_upload_id_marker]]_vars

\* An upload of the target was delivered from the first page, whose next key
\* marker was the target itself, and the second page has been fetched.
C8_Witness ==
    /\ kind = "ObjectUpload"
    /\ JustFetched
    /\ nfetch = 2
    /\ Len(delivered) = 1
    /\ object_name = <<1>>
    /\ call.marker = <<1>>

\* C9: in ObjectUploadIterator, a fetch of a page that is not truncated or holds
\* no upload of the target leaves truncated false, whatever the page's flag and
\* next key marker; and with truncated false and the buffer empty the loop
\* raises StopIteration.
C9_StopWithoutMatches ==
    /\ [](( /\ kind = "ObjectUpload"
            /\ JustFetched
            /\ (~lastPage.is_truncated \/ ~HasExactMatch(lastPage, object_name)))
          => ~is_truncated)
    /\ [][( /\ kind = "ObjectUpload"
            /\ pc = "loop"
            /\ entries = <<>>
            /\ ~is_truncated)
          => (outcome' = "stop" /\ ~FetchStep)]_vars

\* The one page fetched was truncated, held an upload of another object only and
\* had a next key marker not past the target: the sequence ended at once.
C9_Witness ==
    /\ kind = "ObjectUpload"
    /\ exhausted
    /\ nfetch = 1
    /\ nraw = 1
    /\ delivered = <<>>
    /\ returned.is_truncated
    /\ ~StrGreater(returned.marker, object_name)

\* The uploads of the target the service holds, in its order.
TargetUploads == SelectSeq(server, LAMBDA u : u.object_name = object_name)

Count(s, x) == Cardinality({i \in 1..Len(s) : s[i] = x})
\* s has the elements of t, each as often as t has it.
IsPermutation(s, t) ==
    /\ Len(s) = Len(t)
    /\ \A i \in 1..Len(t) : Count(s, t[i]) = Count(t, t[i])
\* The names in names never decrease.
Ascending(names) ==
    \A i \in 1..Len(names) : \A j \in i + 1..Len(names) : ~StrLess(names[j], names[i])

\* C11: every item in ObjectUploadIterator's buffer, and every item it has
\* delivered, has the target as its object name; and right after a fetch the
\* buffer is the page's uploads of the target in the page's order.
C11_OnlyExactMatches ==
    kind = "ObjectUpload" =>
        /\ \A i \in 1..Len(entries) : entries[i].object_name = object_name
        /\ \A i \in 1..Len(delivered) : delivered[i].object_name = object_name
        /\ JustFetched => entries = ExactMatches(lastPage, object_name)

\* A page of two uploads, the first with a name that only begins with the
\* target and the second with the target itself, has left the second alone in
\* the buffer.
C11_Witness ==
    /\ kind = "ObjectUpload"
    /\ JustFetched
    /\ Len(lastPage.upload_list) = 2
    /\ Len(entries) = 1
    /\ entries[1] = lastPage.upload_list[2]
    /\ \E i \in 1..2 :
         /\ lastPage.upload_list[i].object_name # object_name
         /\ Len(object_name) < Len(lastPage.upload_list[i].object_name)
         /\ SubSeq(lastPage.upload_list[i].object_name, 1, Len(object_name))
              = object_name

\* Two uploads of the target with different upload ids were kept in the page's
\* order, the greater id first.
C11_WitnessOrder ==
    /\ kind = "ObjectUpload"
    /\ JustFetched
    /\ Len(entries) = 2
    /\ entries[1].upload_id = <<1>>
    /\ entries[2].upload_id = Empty

\* The concrete records and the placeholders of a page of objects or uploads, in
\* the order of the two lists.
PageItems(page) ==
    IF "object_list" \in DOMAIN page
    THEN page.object_list
         \o [i \in 1..Len(page.prefix_list) |->
               [name |-> page.prefix_list[i], etag |-> None]]
    ELSE page.upload_list
         \o [i \in 1..Len(page.prefix_list) |->
               [object_name |-> page.prefix_list[i], upload_id |-> None]]
\* The name of an object record or an upload record.
ItemName(x) == IF "name" \in DOMAIN x THEN x.name ELSE x.object_name
ItemNames(s) == [i \in 1..Len(s) |-> ItemName(s[i])]

\* C12: for ObjectIterator and MultipartUploadIterator the buffer right after a
\* fetch has the page's concrete entries and one placeholder for each grouping
\* key, each as often as the page has it, and is ascending by name.
C12_MergedAndSorted ==
    (kind \in {"Object", "MultipartUpload"} /\ JustFetched) =>
        /\ IsPermutation(entries, PageItems(lastPage))
        /\ Ascending(ItemNames(entries))

\* A page with the entry b and the grouping key a has given the buffer a, b: the
\* placeholder has moved in front of the entry.
C12_Witness ==
    /\ kind = "Object"
    /\ JustFetched
    /\ lastPage.object_list = << SimplifiedObjectInfo(<<2>>, Etag) >>
    /\ lastPage.prefix_list = << <<1>> >>
    /\ entries = << SimplifiedObjectInfo(<<1>>, None),
                    SimplifiedObjectInfo(<<2>>, Etag) >>

\* The step is a collaborator call that raised: it returned no page.
RaiseStep == FetchStep /\ nfetch' = nfetch

\* C13: a collaborator call that raises ends the next() call with the error
\* and leaves is_truncated, both cursors, the buffer and what was delivered as
\* they were; and the first collaborator call after it, which only a following
\* next() call can make, passes the cursor arguments of the call that raised.
C13_FailureLeavesState ==
    [][/\ RaiseStep =>
            /\ pc' = "idle"
            /\ outcome' = "error"
            /\ is_truncated' = is_truncated
            /\ next_marker' = next_marker
            /\ next_upload_id_marker' = next_upload_id_marker
            /\ entries' = entries
            /\ delivered' = delivered
            /\ exhausted' = exhausted
            /\ failed' = call'
       /\ (FetchStep /\ failed # NoCall) =>
            /\ callFetches = 0
            /\ call' = failed]_vars

\* A MultipartUploadIterator has taken a page with both cursors '1', a
\* collaborator call with those cursors has raised, and the following next()
\* call stands at the fetch with the same cursors.
C13_Witness ==
    /\ kind = "MultipartUpload"
    /\ pc = "loop"
    /\ nfetch = 1
    /\ failed = [marker |-> <<1>>, upload_id_marker |-> <<1>>]
    /\ failed = CallArgs
    /\ MustFetch

\* C14: the constructor calls no collaborator; a collaborator call is made only
\* by a running next() call with the buffer empty and is_truncated true, so
\* never while items are buffered and never once StopIteration has been raised.
C14_FetchOnlyWhenNeeded ==
    /\ (nfetch = 0 /\ callFetches = 0 /\ call = NoCall /\ query = NoCall)
    /\ [][FetchStep =>
            /\ pc = "loop"
            /\ entries = <<>>
            /\ is_truncated
            /\ ~exhausted]_vars

\* A next() call runs after StopIteration was raised, with items delivered and
\* the collaborator still having a page to give.
C14_Witness ==
    /\ exhausted
    /\ pc = "loop"
    /\ delivered # <<>>
    /\ nfetch < MaxFetch

\* The list of a page of buckets or of parts.
RawList(page) == IF "buckets" \in DOMAIN page THEN page.buckets ELSE page.parts

\* C15: for BucketIterator and PartIterator the buffer right after a fetch is
\* the collaborator's list as it is; what the fetches add to the stream is that
\* list, so the items are delivered in the collaborator's order; and after a
\* page that said not truncated no further page is fetched, so a single such
\* page is delivered in its order and then the iterator is exhausted.
C15_Verbatim ==
    /\ [](kind \in {"Bucket", "Part"} =>
            /\ JustFetched => entries = RawList(lastPage)
            /\ delivered \o entries = shaped
            /\ exhausted => delivered = shaped)
    /\ [][(kind \in {"Bucket", "Part"} /\ FetchStep /\ ~RaiseStep) =>
            /\ returned.is_truncated
            /\ shaped' = shaped \o RawList(lastPage')]_vars

\* One page b, a that said not truncated has been delivered as b, a and the
\* iterator is exhausted after that one fetch.
C15_Witness ==
    /\ kind = "Bucket"
    /\ exhausted
    /\ nfetch = 1
    /\ delivered = << <<2>>, <<1>> >>

\* C18: against the ordered listing service the pages an ObjectUploadIterator
\* has fetched are at most one more than those among them that held an upload
\* of the target, at every moment of its life; and it has fetched a page before
\* it raises StopIteration.
C18_FetchBound ==
    /\ nfetch <= 1 + matchPages
    /\ exhausted => nfetch >= 1

\* The iterator is exhausted after two or more pages, the last of which held no
\* upload of the target: the bound is met.
C18_Witness ==
    /\ exhausted
    /\ matchPages >= 1
    /\ nfetch = 1 + matchPages
    /\ Len(delivered) >= 1

\* The query arguments of class k with the constructor's parameters p and the
\* target name.
QueryOf(k, p, name) ==
    CASE k = "Bucket" -> [prefix |-> p.prefix, max_keys |-> p.max_keys]
      [] k = "Object" ->
           [prefix |-> p.prefix, delimiter |-> p.delimiter, max_keys |-> p.max_keys]
      [] k = "MultipartUpload" ->
           [prefix |-> p.prefix, delimiter |-> p.delimiter,
            max_uploads |-> p.max_uploads]
      [] k = "ObjectUpload" -> [prefix |-> name]
      [] k = "Part" ->
           [object_name |-> p.object_name, upload_id |-> p.upload_id,
            max_parts |-> p.max_parts]

\* C20: no step changes the query parameters stored at construction (prefix,
\* delimiter, page-size hint, the target name of ObjectUploadIterator, the
\* object name and upload id of PartIterator), and every collaborator call,
\* the raising ones too, carries exactly the constructor's values.
C20_QueryFixed ==
    [][/\ kind' = kind
       /\ object_name' = object_name
       /\ params' = params
       /\ FetchStep => query' = QueryOf(kind, Params(kind), object_name)]_vars

\* A MultipartUploadIterator's second page has come from a call with the
\* constructor's prefix, delimiter and page-size hint and with cursors that are
\* not those of the first call.
C20_Witness ==
    /\ kind = "MultipartUpload"
    /\ JustFetched
    /\ nfetch = 2
    /\ delivered # <<>>
    /\ query = [prefix |-> <<1>>, delimiter |-> <<2>>,
                max_uploads |-> MaxUploadsDefault]
    /\ call = [marker |-> <<1>>, upload_id_marker |-> <<1>>]

\* C17: with a page sequence that ends with a page saying not truncated, every
\* next() call returns or raises StopIteration and the iterator comes to be
\* exhausted.  And a loop iteration that does not end the call is a fetch, and
\* the iteration after a fetch ends the call unless that fetch left the buffer
\* empty with is_truncated true: a call that never ends fetches such pages for
\* ever.
C17_Terminates ==
    /\ (pc = "loop") ~> (pc = "idle")
    /\ <>exhausted
    /\ [][(pc = "loop" /\ pc' = "loop") => (FetchStep /\ ~RaiseStep)]_vars
    /\ [][(pc = "loop" /\ ~(entries = <<>> /\ is_truncated)) => pc' = "idle"]_vars

\* The collaborator's pages are used up, items have been delivered and
\* StopIteration has been raised.
C17_Witness ==
    /\ exhausted
    /\ pc = "idle"
    /\ nfetch = MaxFetch
    /\ delivered # <<>>

\* The statement with the hypothesis on neighbouring pages only: if no page had
\* a name less than a name of the page returned just before it, what has been
\* delivered is ascending by name.
C19_NeighbourPagesAscending ==
    order.adjacent => Ascending(ItemNames(delivered))

\* C19: for ObjectIterator and MultipartUploadIterator, if no page had a name
\* less than a name of any earlier page, then what has been delivered, and the
\* buffer after it, is ascending by name; and each fetch adds to the end of the
\* stream the items of its page and no others, so no item moves across a page
\* boundary.
C19_GlobalOrder ==
    /\ [](/\ order.all => Ascending(ItemNames(delivered \o entries))
          /\ delivered \o entries = shaped)
    /\ [][FetchStep =>
            /\ IsPermutation(entries', PageItems(lastPage'))
            /\ shaped' = shaped \o entries']_vars

\* Three pages, none with a name less than an earlier one, have given two items
\* with different names, delivered in ascending order, and the iterator is
\* exhausted.
C19_Witness ==
    /\ order.all
    /\ exhausted
    /\ nfetch = MaxOrderFetch
    /\ Len(delivered) = 2
    /\ StrLess(ItemName(delivered[1]), ItemName(delivered[2]))

\* What instance i holds: its flag, its cursor, the contents of its buffer and
\* what it has delivered.
TwoView(i) ==
    [is_truncated |-> two.inst[i].is_truncated,
     next_marker |-> two.inst[i].next_marker,
     buffer |-> two.heap[two.inst[i].entries],
     delivered |-> two.inst[i].delivered,
     exhausted |-> two.inst[i].exhausted]

\* C16: a step of next() on one instance leaves the flag, the cursor, the
\* buffer and the delivered items of the other instance as they were; and what
\* an instance has delivered, followed by its buffer, is the lists the
\* collaborator returned to that instance's own calls, in order, as it is for an
\* instance that runs alone.
C16_Independent ==
    /\ [](\A i \in Instances :
            /\ two.inst[i].delivered \o two.heap[two.inst[i].entries]
                 = two.inst[i].given
            /\ two.inst[i].exhausted =>
                 two.inst[i].delivered = two.inst[i].given)
    /\ [][\A i \in Instances : two'.actor # i => TwoView(i)' = TwoView(i)]_vars

\* Instance 1 holds a fetched bucket in its buffer while instance 2 has fetched
\* and delivered another and has just acted.
C16_Witness ==
    /\ two.actor = 2
    /\ two.heap[two.inst[1].entries] = << <<1>> >>
    /\ two.inst[2].delivered = << <<2>> >>
    /\ two.inst[1].pc = "loop"

====
